---------------------------- MODULE Spec2Model ----------------------------
(***************************************************************************)
(* sms-beacon: the keyword-triggered alarm of PhoneFinderApp               *)
(* (src/capacitor.config.ts) and the location acquisition of GpsTracker    *)
(* (src/src/components/GpsTracker.tsx).                                     *)
(*                                                                         *)
(* Time is counted in seconds.  Every action is one event handler or       *)
(* callback of the source, together with the render and the effects that   *)
(* follow it.                                                              *)
(***************************************************************************)
EXTENDS Integers, Sequences, FiniteSets

(***************************************************************************)
(* Bounds of the model.                                                    *)
(***************************************************************************)
\* last clock reading explored
MaxTime == 3
\* number of messages recorded in one behaviour of Spec
MaxMsgs == 2
\* number of messages recorded in one behaviour of SpecAlarm
MaxAlarmMsgs == 4
\* number of messages recorded in one behaviour of SpecKeyword
MaxKeywordMsgs == 3
\* number of messages recorded in one behaviour of SpecFeed
MaxFeedMsgs == 11
\* number of messages recorded in one behaviour of SpecGps
MaxGpsMsgs == 2
\* number of messages recorded in one behaviour of SpecGpsFair
MaxFairMsgs == 2
\* number of messages recorded in one behaviour of SpecAudio
MaxAudioMsgs == 2
\* last clock reading explored by SpecAudio, later than one alarm duration
MaxAudioTime == 4
\* number of messages recorded in one behaviour of SpecMatcher
MaxMatcherMsgs == 2
\* length of the longest body and keyword SpecMatcher starts from
MaxWordLen == 3

(***************************************************************************)
(* Program constants.                                                      *)
(***************************************************************************)
\* setTimeout(..., 3000): the alarm's fixed duration, in seconds
AlarmDuration == 3
\* prev.slice(0, 9): the messages kept from the previous feed
KeptOnPrepend == 9
\* GeolocationPositionError codes
PERMISSION_DENIED == 1
POSITION_UNAVAILABLE == 2
TIMEOUT == 3

(***************************************************************************)
(* Strings.  A string of the program is a TLA+ string; StringTable gives   *)
(* the characters of every string the model uses, and the string           *)
(* operations work on the characters.                                      *)
(***************************************************************************)
\* the characters of the bodies and keywords SpecMatcher starts from
Alphabet == { "a", "A", "B" }

RECURSIVE WordTable(_)
\* the strings of at most n characters of Alphabet, with their characters
WordTable(n) ==
    IF n = 0 THEN { <<"", <<>>>> }
    ELSE LET shorter == WordTable(n - 1)
         IN  shorter \cup { <<p[1] \o c, Append(p[2], c)>> : p \in shorter, c \in Alphabet }

StringTable ==
    WordTable(MaxWordLen) \cup
    { <<"", <<>>>>,
      <<" ", <<" ">>>>,
      <<"oi", <<"o", "i">>>>,
      <<"+55", <<"+", "5", "5">>>>,
      <<"acharcelular123",
        <<"a", "c", "h", "a", "r", "c", "e", "l", "u", "l", "a", "r", "1", "2", "3">>>>,
      <<"ACHARCELULAR123",
        <<"A", "C", "H", "A", "R", "C", "E", "L", "U", "L", "A", "R", "1", "2", "3">>>>,
      <<"ache ACHARCELULAR123",
        <<"a", "c", "h", "e", " ",
          "A", "C", "H", "A", "R", "C", "E", "L", "U", "L", "A", "R", "1", "2", "3">>>>,
      <<"0", <<"0">>>>, <<"1", <<"1">>>>, <<"2", <<"2">>>>, <<"3", <<"3">>>>,
      <<"4", <<"4">>>>, <<"5", <<"5">>>>, <<"6", <<"6">>>>, <<"7", <<"7">>>>,
      <<"8", <<"8">>>>, <<"9", <<"9">>>> }

\* the characters of a string
Chars(s) == (CHOOSE p \in StringTable : p[1] = s)[2]

\* the string of a sequence of characters
Str(cs) == (CHOOSE p \in StringTable : p[2] = cs)[1]

LowerCase == <<"a", "b", "c", "d", "e", "f", "g", "h", "i", "j", "k", "l", "m",
               "n", "o", "p", "q", "r", "s", "t", "u", "v", "w", "x", "y", "z">>
UpperCase == <<"A", "B", "C", "D", "E", "F", "G", "H", "I", "J", "K", "L", "M",
               "N", "O", "P", "Q", "R", "S", "T", "U", "V", "W", "X", "Y", "Z">>

\* String.prototype.toUpperCase, one character
UpperChar(c) ==
    IF \E i \in 1..Len(LowerCase) : LowerCase[i] = c
    THEN UpperCase[CHOOSE i \in 1..Len(LowerCase) : LowerCase[i] = c]
    ELSE c

RECURSIVE UpperSeq(_)
\* String.prototype.toUpperCase, on the characters
UpperSeq(cs) ==
    IF cs = <<>> THEN <<>> ELSE <<UpperChar(Head(cs))>> \o UpperSeq(Tail(cs))

\* String.prototype.toUpperCase
toUpperCase(s) == Str(UpperSeq(Chars(s)))

\* String.prototype.includes, on the characters: k occurs in cs as a
\* contiguous run
IncludesSeq(cs, k) ==
    \E i \in 0..(Len(cs) - Len(k)) : SubSeq(cs, i + 1, i + Len(k)) = k

\* String.prototype.includes
includes(s, k) == IncludesSeq(Chars(s), Chars(k))

\* only white space (or nothing) in the string
IsBlank(s) == \A i \in 1..Len(Chars(s)) : Chars(s)[i] = " "

Digits == <<"0", "1", "2", "3", "4", "5", "6", "7", "8", "9">>

RECURSIVE DecimalSeq(_)
\* the decimal digits of a natural number
DecimalSeq(n) ==
    IF n < 10 THEN <<Digits[n + 1]>>
    ELSE DecimalSeq(n \div 10) \o <<Digits[(n % 10) + 1]>>

\* Number.prototype.toString
toString(n) == Str(DecimalSeq(n))

\* useState('ACHARCELULAR123')
InitialKeyword == "ACHARCELULAR123"

\* the values typed into the keyword input
KeywordInputs == { "", " ", "acharcelular123" }

\* the values typed into the sender input (the field starts empty, and is
\* emptied after every recorded message)
SenderInputs == { "+55" }

\* the values typed into the message input
MessageInputs == { "oi", "ache ACHARCELULAR123" }

\* the values typed into the message input that hold the initial keyword
MatchingInputs == { m \in MessageInputs : includes(m, InitialKeyword) }

\* the bodies SpecMatcher starts from: every string over Alphabet
Bodies == { p[1] : p \in WordTable(MaxWordLen) }

\* the keywords SpecMatcher starts from: the non-empty ones among them that
\* the keyword input can produce
UpperKeywords == { toUpperCase(w) : w \in Bodies } \ { "" }

(***************************************************************************)
(* Error messages of GpsTracker.                                           *)
(***************************************************************************)
MsgUnsupported == "Geolocalizacao nao suportada neste navegador"
MsgPermissionDenied == "Permissao de localizacao negada"
MsgPositionUnavailable == "Localizacao indisponivel"
MsgTimeout == "Timeout ao obter localizacao"
MsgUnknown == "Erro desconhecido"

\* the codes the platform reports: the three of GeolocationPositionError and
\* one that is none of them
ErrorCodes == { PERMISSION_DENIED, POSITION_UNAVAILABLE, TIMEOUT, TIMEOUT + 1 }

\* the positions the platform reports
Readings ==
    { [latitude |-> 10, longitude |-> 20, accuracy |-> 5],
      [latitude |-> 11, longitude |-> 21, accuracy |-> 6] }

\* useState<LocationData | null>(null)
NoLocation == [held |-> FALSE]

VARIABLES
    \* PhoneFinderApp
    keyword,        \* useState('ACHARCELULAR123')
    isAlarmActive,  \* useState(false)
    smsMessages,    \* useState<SmsMessage[]>([])
    testSender,     \* useState('')
    testMessage,    \* useState('')
    timers,         \* the pending setTimeout callbacks of activateAlarm, in
                    \* creation order: the clock reading each one is due at;
                    \* each one holds the oscillator it will stop
    \* GpsTracker
    location,       \* useState<LocationData | null>(null)
    isTracking,     \* useState(false)
    error,          \* useState<string>('')
    outstanding,    \* the getCurrentPosition requests that have not called back
    \* environment
    now,            \* the clock, in seconds
    geoSupported,   \* navigator.geolocation is present
    \* history (read by the properties only)
    recorded,       \* every message recorded, oldest first, with the keyword
                    \* in force at its arrival
    activeSince,    \* the clock reading of the last Idle-to-Active transition
    retriggered,    \* activateAlarm ran while the alarm was already Active,
                    \* in the current Active window
    acquireCall,    \* the call of getCurrentLocation the last step made:
                    \* "none", "auto" (the effect) or "manual" (the button)
    toneFailed,     \* the last step's activateAlarm threw in the audio code
    autoPending     \* how many of the outstanding requests the effect issued

vars == <<keyword, isAlarmActive, smsMessages, testSender, testMessage, timers,
          location, isTracking, error, outstanding, now, geoSupported,
          recorded, activeSince, retriggered, acquireCall, toneFailed,
          autoPending>>

appVars == <<keyword, isAlarmActive, smsMessages, testSender, testMessage, timers>>
gpsVars == <<location, isTracking, error, outstanding>>

Init ==
    /\ keyword = InitialKeyword
    /\ isAlarmActive = FALSE
    /\ smsMessages = <<>>
    /\ testSender = ""
    /\ testMessage = ""
    /\ timers = <<>>
    /\ location = NoLocation
    /\ isTracking = FALSE
    /\ error = ""
    /\ outstanding = 0
    /\ now = 0
    /\ geoSupported \in BOOLEAN
    /\ recorded = <<>>
    /\ activeSince = 0
    /\ retriggered = FALSE
    /\ acquireCall = "none"
    /\ toneFailed = FALSE
    /\ autoPending = 0


(***************************************************************************)
(* GpsTracker.                                                             *)
(***************************************************************************)
\* GpsTracker's isAlarmActive prop: the parent passes its own alarm state
AlarmProp(active) == active

\* getCurrentLocation, called with `pending` requests outstanding: sets
\* isTracking, error and outstanding
getCurrentLocation(pending) ==
    IF ~geoSupported
    THEN /\ error' = MsgUnsupported
         /\ isTracking' = isTracking
         /\ outstanding' = pending
    ELSE /\ isTracking' = TRUE
         /\ error' = ""
         /\ outstanding' = pending + 1

\* the auto-locate condition with the negation of location lost
AutoLocateConditionHeld(active, loc) == active /\ loc.held

\* the condition of the auto-locate effect
AutoLocateCondition(active, loc) == active /\ ~loc.held

\* an effect without its dependency list: it runs after every render
AutoLocateEveryRender ==
    IF AutoLocateCondition(AlarmProp(isAlarmActive'), location')
    THEN /\ getCurrentLocation(outstanding)
         /\ acquireCall' = "auto"
         /\ autoPending' = autoPending + (outstanding' - outstanding)
    ELSE /\ UNCHANGED <<isTracking, error, outstanding, autoPending>>
         /\ acquireCall' = "none"

\* useEffect(..., [isAlarmActive, location]) after a render in which neither
\* callback of a request ran: the effect runs when a dependency changed
AutoLocate ==
    IF /\ <<AlarmProp(isAlarmActive'), location'>> # <<AlarmProp(isAlarmActive), location>>
       /\ AutoLocateCondition(AlarmProp(isAlarmActive'), location')
    THEN /\ getCurrentLocation(outstanding)
         /\ acquireCall' = "auto"
         /\ autoPending' = autoPending + (outstanding' - outstanding)
    ELSE /\ UNCHANGED <<isTracking, error, outstanding, autoPending>>
         /\ acquireCall' = "none"

\* a switch without the case of TIMEOUT
ErrorMessageNoTimeout(code) ==
    CASE code = PERMISSION_DENIED -> MsgPermissionDenied
      [] code = POSITION_UNAVAILABLE -> MsgPositionUnavailable
      [] OTHER -> MsgUnknown

\* the error callback's switch (error.code)
ErrorMessage(code) ==
    CASE code = PERMISSION_DENIED -> MsgPermissionDenied
      [] code = POSITION_UNAVAILABLE -> MsgPositionUnavailable
      [] code = TIMEOUT -> MsgTimeout
      [] OTHER -> MsgUnknown

\* the acquire button: onClick={getCurrentLocation} disabled={isTracking}
ClickAcquire ==
    /\ ~isTracking
    /\ getCurrentLocation(outstanding)
    /\ acquireCall' = "manual"
    /\ toneFailed' = FALSE
    /\ autoPending' = autoPending
    /\ UNCHANGED <<appVars, location, now, geoSupported, recorded, activeSince,
                   retriggered>>

\* a success callback that writes the reading over the record it finds and
\* keeps the accuracy of a reading already held
PositionSuccessMerge(reading) ==
    /\ outstanding > 0
    /\ location' = [held |-> TRUE,
                    latitude |-> reading.latitude,
                    longitude |-> reading.longitude,
                    accuracy |-> IF location.held THEN location.accuracy
                                                  ELSE reading.accuracy,
                    timestamp |-> now]
    /\ isTracking' = FALSE
    /\ outstanding' = outstanding - 1
    /\ error' = error
    /\ acquireCall' = "none"
    /\ \E auto \in BOOLEAN :
          /\ IF auto THEN autoPending > 0 ELSE outstanding > autoPending
          /\ autoPending' = (IF auto THEN autoPending - 1 ELSE autoPending)
    /\ toneFailed' = FALSE
    /\ UNCHANGED <<appVars, now, geoSupported, recorded, activeSince, retriggered>>

\* a success callback without setIsTracking(false)
PositionSuccessKeepsTracking(reading) ==
    /\ outstanding > 0
    /\ location' = [held |-> TRUE,
                    latitude |-> reading.latitude,
                    longitude |-> reading.longitude,
                    accuracy |-> reading.accuracy,
                    timestamp |-> now]
    /\ isTracking' = isTracking
    /\ outstanding' = outstanding - 1
    /\ error' = error
    /\ acquireCall' = "none"
    /\ \E auto \in BOOLEAN :
          /\ IF auto THEN autoPending > 0 ELSE outstanding > autoPending
          /\ autoPending' = (IF auto THEN autoPending - 1 ELSE autoPending)
    /\ toneFailed' = FALSE
    /\ UNCHANGED <<appVars, now, geoSupported, recorded, activeSince, retriggered>>

\* the success callback of getCurrentPosition
PositionSuccess(reading) ==
    /\ outstanding > 0
    /\ location' = [held |-> TRUE,
                    latitude |-> reading.latitude,
                    longitude |-> reading.longitude,
                    accuracy |-> reading.accuracy,
                    timestamp |-> now]
    /\ IF AutoLocateCondition(AlarmProp(isAlarmActive), location')
       THEN /\ getCurrentLocation(outstanding - 1)
            /\ acquireCall' = "auto"
       ELSE /\ isTracking' = FALSE
            /\ outstanding' = outstanding - 1
            /\ error' = error
            /\ acquireCall' = "none"
    /\ \E auto \in BOOLEAN :
          /\ IF auto THEN autoPending > 0 ELSE outstanding > autoPending
          /\ autoPending' = (IF auto THEN autoPending - 1 ELSE autoPending)
                              + (outstanding' - (outstanding - 1))
    /\ toneFailed' = FALSE
    /\ UNCHANGED <<appVars, now, geoSupported, recorded, activeSince, retriggered>>

\* an error callback that also drops the location held
PositionErrorDropsLocation(code) ==
    /\ outstanding > 0
    /\ error' = ErrorMessage(code)
    /\ location' = NoLocation
    /\ isTracking' = FALSE
    /\ outstanding' = outstanding - 1
    /\ acquireCall' = "none"
    /\ \E auto \in BOOLEAN :
          /\ IF auto THEN autoPending > 0 ELSE outstanding > autoPending
          /\ autoPending' = (IF auto THEN autoPending - 1 ELSE autoPending)
    /\ toneFailed' = FALSE
    /\ UNCHANGED <<appVars, now, geoSupported, recorded, activeSince, retriggered>>

\* the error callback of getCurrentPosition
PositionError(code) ==
    /\ outstanding > 0
    /\ error' = ErrorMessage(code)
    /\ isTracking' = FALSE
    /\ outstanding' = outstanding - 1
    /\ acquireCall' = "none"
    /\ \E auto \in BOOLEAN :
          /\ IF auto THEN autoPending > 0 ELSE outstanding > autoPending
          /\ autoPending' = (IF auto THEN autoPending - 1 ELSE autoPending)
    /\ toneFailed' = FALSE
    /\ UNCHANGED <<appVars, location, now, geoSupported, recorded, activeSince,
                   retriggered>>

(***************************************************************************)
(* PhoneFinderApp.                                                         *)
(***************************************************************************)
\* a matcher that normalizes the body before the search
TriggeredIgnoringCase(message, kw) == includes(toUpperCase(message), kw)

\* triggered: message.includes(keyword)
Triggered(message, kw) == includes(message, kw)

\* the SmsMessage simulateIncomingSms builds
NewSms(sender, message) ==
    [id |-> toString(now),
     sender |-> sender,
     message |-> message,
     timestamp |-> now,
     triggered |-> Triggered(message, keyword)]

\* the feed update with prev.slice(0, 10)
PrependKeepTen(newSms, prev) ==
    <<newSms>> \o SubSeq(prev, 1, IF Len(prev) < KeptOnPrepend + 1 THEN Len(prev)
                                                                  ELSE KeptOnPrepend + 1)

\* prev => [newSms, ...prev.slice(0, 9)]
Prepend(newSms, prev) ==
    <<newSms>> \o SubSeq(prev, 1, IF Len(prev) < KeptOnPrepend THEN Len(prev)
                                                              ELSE KeptOnPrepend)

\* activateAlarm; audioOk is false when the audio code throws, which happens
\* after setIsAlarmActive(true) and before setTimeout
activateAlarm(audioOk) ==
    /\ isAlarmActive' = TRUE
    /\ timers' = IF audioOk THEN Append(timers, now + AlarmDuration) ELSE timers
    /\ toneFailed' = ~audioOk
    /\ activeSince' = IF isAlarmActive THEN activeSince ELSE now
    /\ retriggered' = isAlarmActive

\* the alarm activated for every message
ShouldActivateAlways(newSms) == TRUE

\* if (newSms.triggered)
ShouldActivate(newSms) == newSms.triggered

\* simulateIncomingSms
simulateIncomingSms(sender, message, audioOk) ==
    LET newSms == NewSms(sender, message) IN
    /\ smsMessages' = Prepend(newSms, smsMessages)
    /\ recorded' = Append(recorded, [sms |-> newSms, keyword |-> keyword])
    /\ IF ShouldActivate(newSms)
       THEN activateAlarm(audioOk)
       ELSE /\ UNCHANGED <<isAlarmActive, timers, activeSince, retriggered>>
            /\ toneFailed' = FALSE

\* handleTestSms without the test of the two fields
handleTestSmsUnchecked(audioOk, cap) ==
    /\ Len(recorded) < cap
    /\ simulateIncomingSms(testSender, testMessage, audioOk)
    /\ IF toneFailed'
       THEN UNCHANGED <<testSender, testMessage>>
       ELSE testSender' = "" /\ testMessage' = ""
    /\ UNCHANGED <<keyword, location, now, geoSupported>>
    /\ AutoLocate

\* handleTestSms, with at most `cap` messages recorded in a behaviour; the
\* fields are not cleared when simulateIncomingSms throws
handleTestSms(audioOk, cap) ==
    /\ IF testSender = "" \/ testMessage = ""
       THEN /\ UNCHANGED <<smsMessages, recorded, isAlarmActive, timers, activeSince,
                           retriggered, testSender, testMessage>>
            /\ toneFailed' = FALSE
       ELSE /\ Len(recorded) < cap
            /\ simulateIncomingSms(testSender, testMessage, audioOk)
            /\ IF toneFailed'
               THEN UNCHANGED <<testSender, testMessage>>
               ELSE testSender' = "" /\ testMessage' = ""
    /\ UNCHANGED <<keyword, location, now, geoSupported>>
    /\ AutoLocate

\* the keyword input with the flags of the feed computed again from the new
\* keyword
SetKeywordRematch(value) ==
    /\ keyword' = toUpperCase(value)
    /\ smsMessages' = [i \in 1..Len(smsMessages) |->
                          [smsMessages[i] EXCEPT
                              !.triggered = includes(smsMessages[i].message, keyword')]]
    /\ acquireCall' = "none"
    /\ toneFailed' = FALSE
    /\ autoPending' = autoPending
    /\ UNCHANGED <<isAlarmActive, testSender, testMessage, timers,
                   gpsVars, now, geoSupported, recorded, activeSince, retriggered>>

\* a keyword input that stores the text as typed
SetKeywordAsTyped(value) ==
    /\ keyword' = value
    /\ acquireCall' = "none"
    /\ toneFailed' = FALSE
    /\ autoPending' = autoPending
    /\ UNCHANGED <<isAlarmActive, smsMessages, testSender, testMessage, timers,
                   gpsVars, now, geoSupported, recorded, activeSince, retriggered>>

\* the keyword input: onChange={(e) => setKeyword(e.target.value.toUpperCase())}
SetKeyword(value) ==
    /\ keyword' = toUpperCase(value)
    /\ acquireCall' = "none"
    /\ toneFailed' = FALSE
    /\ autoPending' = autoPending
    /\ UNCHANGED <<isAlarmActive, smsMessages, testSender, testMessage, timers,
                   gpsVars, now, geoSupported, recorded, activeSince, retriggered>>

\* the sender input: onChange={(e) => setTestSender(e.target.value)}
SetTestSender(value) ==
    /\ testSender' = value
    /\ acquireCall' = "none"
    /\ toneFailed' = FALSE
    /\ autoPending' = autoPending
    /\ UNCHANGED <<keyword, isAlarmActive, smsMessages, testMessage, timers,
                   gpsVars, now, geoSupported, recorded, activeSince, retriggered>>

\* the message input: onChange={(e) => setTestMessage(e.target.value)}
SetTestMessage(value) ==
    /\ testMessage' = value
    /\ acquireCall' = "none"
    /\ toneFailed' = FALSE
    /\ autoPending' = autoPending
    /\ UNCHANGED <<keyword, isAlarmActive, smsMessages, testSender, timers,
                   gpsVars, now, geoSupported, recorded, activeSince, retriggered>>

\* the setTimeout callback of activateAlarm: oscillator.stop() and
\* setIsAlarmActive(false); the oldest pending timer runs when it is due
AlarmTimeout ==
    /\ timers # <<>>
    /\ Head(timers) <= now
    /\ timers' = Tail(timers)
    /\ isAlarmActive' = FALSE
    /\ retriggered' = FALSE
    /\ toneFailed' = FALSE
    /\ UNCHANGED <<keyword, smsMessages, testSender, testMessage, location, now,
                   geoSupported, recorded, activeSince>>
    /\ AutoLocate

\* one second passes; a timer that is due runs before the clock moves on
Tick ==
    /\ now < MaxTime
    /\ \A i \in 1..Len(timers) : timers[i] > now
    /\ now' = now + 1
    /\ acquireCall' = "none"
    /\ toneFailed' = FALSE
    /\ autoPending' = autoPending
    /\ UNCHANGED <<appVars, gpsVars, geoSupported, recorded, activeSince, retriggered>>

\* one second passes, up to the clock reading `last`
TickTo(last) ==
    /\ now < last
    /\ \A i \in 1..Len(timers) : timers[i] > now
    /\ now' = now + 1
    /\ acquireCall' = "none"
    /\ toneFailed' = FALSE
    /\ autoPending' = autoPending
    /\ UNCHANGED <<appVars, gpsVars, geoSupported, recorded, activeSince, retriggered>>

(***************************************************************************)
(* Specifications.                                                         *)
(***************************************************************************)
\* the whole application with the keyword left as it is
Next ==
    \/ \E v \in SenderInputs : SetTestSender(v)
    \/ \E v \in MessageInputs : SetTestMessage(v)
    \/ \E audioOk \in BOOLEAN : handleTestSms(audioOk, MaxMsgs)
    \/ AlarmTimeout
    \/ Tick
    \/ ClickAcquire
    \/ \E r \in Readings : PositionSuccess(r)
    \/ \E c \in ErrorCodes : PositionError(c)

Spec == Init /\ [][Next]_vars

\* the alarm with an audio output that works and a platform that has not
\* answered yet
NextAlarm ==
    \/ \E v \in SenderInputs : SetTestSender(v)
    \/ \E v \in MessageInputs : SetTestMessage(v)
    \/ handleTestSms(TRUE, MaxAlarmMsgs)
    \/ AlarmTimeout
    \/ Tick

SpecAlarm == Init /\ [][NextAlarm]_vars

\* the keyword input and the messages matched against it, all within the
\* first second
NextKeyword ==
    \/ \E v \in KeywordInputs : SetKeyword(v)
    \/ \E v \in SenderInputs : SetTestSender(v)
    \/ \E v \in MessageInputs : SetTestMessage(v)
    \/ \E audioOk \in BOOLEAN : handleTestSms(audioOk, MaxKeywordMsgs)

SpecKeyword == Init /\ [][NextKeyword]_vars

\* the inbox feed filled beyond its capacity
NextFeed ==
    \/ \E v \in SenderInputs : SetTestSender(v)
    \/ \E v \in MessageInputs : SetTestMessage(v)
    \/ \E audioOk \in BOOLEAN : handleTestSms(audioOk, MaxFeedMsgs)

SpecFeed == Init /\ [][NextFeed]_vars

\* the location acquisition, with the alarm raised by matching messages and
\* a working audio output
NextGps ==
    \/ \E v \in SenderInputs : SetTestSender(v)
    \/ \E v \in MatchingInputs : SetTestMessage(v)
    \/ handleTestSms(TRUE, MaxGpsMsgs)
    \/ AlarmTimeout
    \/ Tick
    \/ ClickAcquire
    \/ \E reading \in Readings : PositionSuccess(reading)
    \/ \E code \in ErrorCodes : PositionError(code)

SpecGps == Init /\ [][NextGps]_vars

\* the alarm with an audio output that may fail, followed for longer than
\* one alarm duration
NextAudio ==
    \/ \E v \in SenderInputs : SetTestSender(v)
    \/ \E v \in MessageInputs : SetTestMessage(v)
    \/ \E audioOk \in BOOLEAN : handleTestSms(audioOk, MaxAudioMsgs)
    \/ AlarmTimeout
    \/ TickTo(MaxAudioTime)

SpecAudio == Init /\ [][NextAudio]_vars

\* one of the two callbacks of an outstanding request runs
Callback ==
    \/ \E reading \in Readings : PositionSuccess(reading)
    \/ \E code \in ErrorCodes : PositionError(code)

\* the location acquisition at one reading of the clock
NextFair ==
    \/ \E v \in SenderInputs : SetTestSender(v)
    \/ \E v \in MatchingInputs : SetTestMessage(v)
    \/ handleTestSms(TRUE, MaxFairMsgs)
    \/ ClickAcquire
    \/ Callback

\* getCurrentPosition is given timeout: 10000, so the platform runs one of
\* the callbacks of every request: no request stays outstanding for ever
SpecGpsFair == Init /\ [][NextFair]_vars /\ WF_vars(Callback)

\* the matcher on every body and keyword: a keyword has been set and a
\* sender and a body typed; the body is submitted, and typed again
InitMatcher ==
    /\ keyword \in UpperKeywords
    /\ isAlarmActive = FALSE
    /\ smsMessages = <<>>
    /\ testSender \in SenderInputs
    /\ testMessage \in Bodies
    /\ timers = <<>>
    /\ location = NoLocation
    /\ isTracking = FALSE
    /\ error = ""
    /\ outstanding = 0
    /\ now = 0
    /\ geoSupported = TRUE
    /\ recorded = <<>>
    /\ activeSince = 0
    /\ retriggered = FALSE
    /\ acquireCall = "none"
    /\ toneFailed = FALSE
    /\ autoPending = 0

\* the body of a recorded message typed into the message input again
RetypeMessage == \E i \in 1..Len(recorded) : SetTestMessage(recorded[i].sms.message)

NextMatcher ==
    \/ \E v \in SenderInputs : SetTestSender(v)
    \/ RetypeMessage
    \/ handleTestSms(TRUE, MaxMatcherMsgs)

SpecMatcher == InitMatcher /\ [][NextMatcher]_vars

(***************************************************************************)
(* Properties.                                                             *)
(***************************************************************************)
\* the last message recorded, with the keyword in force at its arrival
LastRecorded == recorded[Len(recorded)]

\* this step recorded a message
RecordStep == Len(recorded') = Len(recorded) + 1

\* C1: at most one alarm countdown is pending in every reachable state: an
\* activateAlarm that runs while the alarm is Active schedules no second one.
C1_AtMostOneCountdown == Len(timers) <= 1

\* C2: every Active period ends exactly AlarmDuration after the Idle-to-Active
\* transition that started it: the alarm never becomes Idle at another clock
\* reading, and is never still Active after that reading.
C2_ActiveLastsExactlyDuration ==
    [][ /\ (isAlarmActive /\ ~isAlarmActive' => now' = activeSince + AlarmDuration)
        /\ (isAlarmActive' => now' <= activeSince' + AlarmDuration) ]_vars

\* C3: an Active period in which activateAlarm ran a second time still ends
\* exactly AlarmDuration after the transition that started it, and the alarm
\* is Active right after the second activateAlarm.
C3_RetriggerKeepsWindow ==
    [][ /\ (isAlarmActive /\ retriggered /\ ~isAlarmActive'
               => now' = activeSince + AlarmDuration)
        /\ (retriggered' => isAlarmActive') ]_vars

\* C4: the keyword is never empty and never only white space.
C4_KeywordNeverBlank == ~IsBlank(keyword)

\* C5: at most one getCurrentPosition request is outstanding at any time,
\* whether the button or the auto-locate effect asked for it.
C5_AtMostOneOutstanding == outstanding <= 1

\* C6: when the audio code of activateAlarm fails the alarm is Active with a
\* countdown pending and the message that triggered it heads the feed; the
\* error callback of a request changes neither the alarm nor the feed.
C6_FailuresKeepAlarmAndFeed ==
    [][ /\ (toneFailed' => /\ isAlarmActive'
                           /\ timers' # <<>>
                           /\ smsMessages' # <<>>
                           /\ Head(smsMessages') = LastRecorded'.sms)
        /\ ((\E c \in ErrorCodes : PositionError(c))
               => UNCHANGED <<isAlarmActive, timers, smsMessages>>) ]_vars

\* C7: the feed holds at most 10 messages, and they are the most recently
\* recorded ones, the most recent first.
C7_FeedHoldsMostRecent ==
    LET n == Len(recorded)
        k == IF n < 10 THEN n ELSE 10
    IN  /\ Len(smsMessages) = k
        /\ \A i \in 1..k : smsMessages[i] = recorded[n + 1 - i].sms

\* C7 witness: an eleventh message was recorded, the feed holds ten and the
\* first message recorded is no longer among them.
C7_Witness ==
    /\ Len(recorded) = 11
    /\ Len(smsMessages) = 10
    /\ smsMessages[10] = recorded[2].sms
    /\ smsMessages[1] = recorded[11].sms
    /\ recorded[1].sms # recorded[2].sms

\* C8 as claimed: recording a message that contains the keyword sets its
\* flag, makes the alarm Active and, when no location is held, calls
\* getCurrentLocation from the auto-locate effect.
C8_MatchStartsAcquisition ==
    [][ RecordStep /\ includes(LastRecorded'.sms.message, keyword)
          => /\ LastRecorded'.sms.triggered
             /\ isAlarmActive'
             /\ (~location.held => acquireCall' = "auto") ]_vars

\* C8 as amended: the same, with the automatic call made when the alarm was
\* Idle and no location is held; the call issues a platform request when
\* geolocation is supported.
C8_MatchStartsAcquisitionFromIdle ==
    [][ RecordStep /\ includes(LastRecorded'.sms.message, keyword)
          => /\ LastRecorded'.sms.triggered
             /\ isAlarmActive'
             /\ (~location.held /\ ~isAlarmActive
                   => /\ acquireCall' = "auto"
                      /\ (geoSupported => isTracking' /\ outstanding' = outstanding + 1)
                      /\ (~geoSupported => error' = MsgUnsupported)) ]_vars

\* C8 witness: a matching message has just been recorded while the alarm was
\* Idle and no location was held, and the effect issued a request.
C8_Witness ==
    /\ recorded # <<>>
    /\ LastRecorded.sms.triggered
    /\ Head(smsMessages) = LastRecorded.sms
    /\ isAlarmActive /\ ~retriggered /\ activeSince = now
    /\ ~location.held
    /\ acquireCall = "auto"
    /\ isTracking /\ outstanding > 0

\* C9: recording a message that does not contain the keyword leaves its
\* flag false and changes neither the alarm, its countdowns, the location
\* nor the acquisition status, and calls getCurrentLocation in no way.
C9_NonMatchChangesNothing ==
    [][ RecordStep /\ ~includes(LastRecorded'.sms.message, keyword)
          => /\ ~LastRecorded'.sms.triggered
             /\ Head(smsMessages') = LastRecorded'.sms
             /\ UNCHANGED <<isAlarmActive, timers, location, isTracking,
                            outstanding, error>>
             /\ acquireCall' = "none" ]_vars

\* C9 witness: a message without the keyword has just been recorded while
\* the alarm was Active with a countdown pending and a request outstanding.
C9_Witness ==
    /\ recorded # <<>>
    /\ ~LastRecorded.sms.triggered
    /\ ~includes(LastRecorded.sms.message, keyword)
    /\ Head(smsMessages) = LastRecorded.sms
    /\ LastRecorded.sms.timestamp = now
    /\ testSender = "" /\ testMessage = ""
    /\ isAlarmActive /\ timers # <<>>
    /\ isTracking /\ outstanding > 0

\* C10: every message of the feed carries the flag computed at its arrival
\* from the keyword then in force, whatever the keyword is now.
C10_MatchedFixedAtArrival ==
    \A i \in 1..Len(smsMessages) :
        LET r == recorded[Len(recorded) + 1 - i]
        IN  /\ smsMessages[i] = r.sms
            /\ smsMessages[i].triggered = includes(smsMessages[i].message, r.keyword)

\* C10 witness: the keyword was changed after a message arrived, and the
\* message's flag is not what the keyword of now would give.
C10_Witness ==
    \E i \in 1..Len(smsMessages) :
        /\ recorded[Len(recorded) + 1 - i].keyword # keyword
        /\ smsMessages[i].triggered # includes(smsMessages[i].message, keyword)

\* C11: getCurrentLocation is called by the auto-locate effect only in a
\* step that takes the alarm from Idle to Active (and then with no location
\* held): never in a step that starts with the alarm Active, whether a
\* request failed before or a further matching message arrives, and never
\* in a step that leaves the alarm Idle.
C11_AutoOnlyOnIdleToActive ==
    [][ acquireCall' = "auto"
          => /\ ~isAlarmActive /\ isAlarmActive'
             /\ ~location.held ]_vars

\* C11 witness: within one Active window the request the effect issued has
\* failed and a further matching message has re-triggered the alarm, no
\* location is held, and no second request has been issued.
C11_Witness ==
    /\ geoSupported
    /\ recorded # <<>>
    /\ LastRecorded.sms.triggered
    /\ isAlarmActive /\ retriggered
    /\ ~location.held
    /\ error \in { MsgPermissionDenied, MsgPositionUnavailable, MsgTimeout, MsgUnknown }
    /\ acquireCall = "none"
    /\ ~isTracking /\ outstanding = 0

\* C12: while a location is held no step calls getCurrentLocation from the
\* auto-locate effect, a request is issued only by the acquire button, and
\* the held location changes only when a request other than one the effect
\* issued succeeds.
C12_HeldLocationOnlyRefreshedByUser ==
    [][ location.held
          => /\ acquireCall' # "auto"
             /\ (outstanding' > outstanding => acquireCall' = "manual")
             /\ (location' # location
                   => /\ outstanding' = outstanding - 1
                      /\ autoPending' = autoPending) ]_vars

\* C13: the location is absent at first, and every step that changes it
\* consumes one request and leaves a record of exactly five fields whose
\* latitude, longitude and accuracy are those of one platform reading and
\* whose timestamp is the time of the callback, whether or not a location
\* was held before.
C13_LocationAbsentOrComplete ==
    /\ location = NoLocation
    /\ [][ location' # location
             => /\ outstanding' = outstanding - 1
                /\ DOMAIN location' = { "held", "latitude", "longitude",
                                        "accuracy", "timestamp" }
                /\ location'.held
                /\ location'.timestamp = now
                /\ \E r \in Readings :
                      /\ location'.latitude = r.latitude
                      /\ location'.longitude = r.longitude
                      /\ location'.accuracy = r.accuracy ]_vars

\* C13 witness: after the clock has advanced a success callback has just
\* stored the second platform reading, and no request is outstanding.
C13_Witness ==
    /\ location.held
    /\ now > 0 /\ location.timestamp = now
    /\ <<location.latitude, location.longitude, location.accuracy>> = <<11, 21, 6>>
    /\ ~isTracking /\ outstanding = 0
    /\ acquireCall = "none"

\* C14: isTracking is true exactly when at least one request has been
\* issued and has not called back.
C14_TrackingIffOutstanding == isTracking <=> outstanding > 0

\* C15: the five reasons are non-empty and pairwise distinct; an error
\* callback with code c reports the reason of PERMISSION_DENIED,
\* POSITION_UNAVAILABLE or TIMEOUT exactly when c is that code and the
\* reason of an unknown error for every other code, and leaves the location
\* alone; a call of getCurrentLocation without geolocation reports the
\* reason of an unsupported platform, issues no request and does not set
\* isTracking.
C15_FailuresClassified ==
    /\ Cardinality({ MsgUnsupported, MsgPermissionDenied, MsgPositionUnavailable,
                     MsgTimeout, MsgUnknown, "" }) = 6
    /\ [][
          /\ \A c \in ErrorCodes :
                PositionError(c)
                  => /\ (error' = MsgPermissionDenied) = (c = PERMISSION_DENIED)
                     /\ (error' = MsgPositionUnavailable) = (c = POSITION_UNAVAILABLE)
                     /\ (error' = MsgTimeout) = (c = TIMEOUT)
                     /\ (error' = MsgUnknown)
                           = (c \notin { PERMISSION_DENIED, POSITION_UNAVAILABLE, TIMEOUT })
                     /\ location' = location
          /\ (acquireCall' # "none" /\ ~geoSupported)
                => /\ error' = MsgUnsupported
                   /\ outstanding' = outstanding /\ outstanding' = 0
                   /\ ~isTracking'
       ]_vars

\* C15 witness: the only request has failed with a code that is none of the
\* three named ones, and the reason of an unknown error is reported.
C15_Witness ==
    /\ geoSupported
    /\ error = MsgUnknown
    /\ ~isTracking /\ outstanding = 0
    /\ ~location.held

\* every oscillator started is stopped by its own countdown and by nothing
\* else, so the tones sounding are the countdowns pending
TonesPlaying == Len(timers)

\* C16: one tone sounds per Active window and none after it: while the alarm
\* is Active at most one tone is sounding, and while it is Idle none is.
C16_OneTonePerActiveWindow ==
    /\ isAlarmActive => TonesPlaying <= 1
    /\ ~isAlarmActive => TonesPlaying = 0

\* C17: any two messages of the feed have different ids.
C17_FeedIdsDistinct ==
    \A i, j \in 1..Len(smsMessages) :
        i # j => smsMessages[i].id # smsMessages[j].id

\* b is some characters, then k, then some characters
ContainsRun(b, k) ==
    \E n \in 0..Len(b), m \in 1..(Len(b) + 1) :
        SubSeq(b, 1, n) \o k \o SubSeq(b, m, Len(b)) = b

\* C18: the flag of every recorded message is true exactly when the
\* characters of its body, taken as they are, contain the characters of the
\* keyword as one contiguous run, and two recordings of the same body under
\* the same keyword carry the same flag.
C18_MatchesIsSubstring ==
    /\ \A i \in 1..Len(recorded) :
          recorded[i].sms.triggered
            = ContainsRun(Chars(recorded[i].sms.message), Chars(recorded[i].keyword))
    /\ \A i, j \in 1..Len(recorded) :
          (/\ recorded[i].sms.message = recorded[j].sms.message
           /\ recorded[i].keyword = recorded[j].keyword)
            => recorded[i].sms.triggered = recorded[j].sms.triggered

\* C18 witness: the same body has been recorded twice under the same
\* non-empty keyword; the body holds the keyword in another case only, and
\* neither recording is flagged.
C18_Witness ==
    /\ Len(recorded) >= 2
    /\ recorded[1].sms.message = recorded[2].sms.message
    /\ recorded[1].keyword = recorded[2].keyword
    /\ recorded[1].keyword # ""
    /\ ContainsRun(UpperSeq(Chars(recorded[1].sms.message)), Chars(recorded[1].keyword))
    /\ ~recorded[1].sms.triggered /\ ~recorded[2].sms.triggered

\* C19: in every state the keyword holds no lowercase letter and is its own
\* uppercase form.
C19_KeywordUppercase ==
    /\ \A i \in 1..Len(Chars(keyword)) :
          \A j \in 1..Len(LowerCase) : Chars(keyword)[i] # LowerCase[j]
    /\ keyword = toUpperCase(keyword)

\* C19 witness: a text in lowercase letters has been typed into the keyword
\* input after a message was recorded under another keyword, and the
\* keyword held is the uppercase form of the text.
C19_Witness ==
    /\ keyword = toUpperCase("acharcelular123")
    /\ keyword # "acharcelular123"
    /\ recorded # <<>>
    /\ LastRecorded.keyword # keyword

\* C20: every state with isTracking set is followed by a state with
\* isTracking cleared; and every step in which a request calls back consumes
\* exactly that request, clears isTracking, and either stores a location
\* read at that moment and leaves the failure reason as it was, or reports
\* a non-empty failure reason and leaves the location as it was; no step
\* changes both.
C20_RequestFulfilledOnce ==
    /\ isTracking ~> ~isTracking
    /\ [][
          /\ outstanding' < outstanding
                => /\ outstanding' = outstanding - 1
                   /\ ~isTracking'
                   /\ \/ /\ location'.held /\ location'.timestamp = now
                         /\ error' = error
                      \/ /\ location' = location
                         /\ error' \in { MsgPermissionDenied, MsgPositionUnavailable,
                                         MsgTimeout, MsgUnknown }
          /\ ~(location' # location /\ error' # error)
          /\ outstanding' >= 0
       ]_vars

\* C20 witness: the request the effect issued for a matching message has
\* called back with a reading: a location is held, no failure reason is
\* set, isTracking is cleared and nothing is outstanding.
C20_Witness ==
    /\ geoSupported
    /\ recorded # <<>> /\ isAlarmActive
    /\ location.held
    /\ error = ""
    /\ ~isTracking /\ outstanding = 0
    /\ acquireCall = "none"

\* C21: a step in which a request fails, or in which getCurrentLocation is
\* called without geolocation, leaves the location as it was, held with the
\* same four values or absent; the error callback changes nothing of the
\* program but the failure reason and isTracking.
C21_FailureKeepsLocation ==
    [][
       /\ (\E c \in ErrorCodes : PositionError(c))
             => /\ location'.held = location.held
                /\ location.held
                     => /\ location'.latitude = location.latitude
                        /\ location'.longitude = location.longitude
                        /\ location'.accuracy = location.accuracy
                        /\ location'.timestamp = location.timestamp
                /\ UNCHANGED <<keyword, isAlarmActive, smsMessages, testSender,
                               testMessage, timers>>
       /\ (acquireCall' # "none" /\ ~geoSupported)
             => /\ location' = location
                /\ isTracking' = isTracking
    ]_vars

\* C21 witness: no message was ever recorded, so the requests were made one
\* at a time with the button; a location is held from an earlier request and
\* the latest request has failed, its reason being reported.
C21_Witness ==
    /\ geoSupported
    /\ recorded = <<>>
    /\ location.held
    /\ error \in { MsgPermissionDenied, MsgPositionUnavailable, MsgTimeout, MsgUnknown }
    /\ ~isTracking /\ outstanding = 0

\* C22: whenever the alarm is Active some recorded message is flagged and
\* was recorded at most AlarmDuration before now, so that with no flagged
\* message recorded the alarm is Idle; and the alarm goes from Idle to
\* Active only in a step that records a flagged message.
C22_ActiveOnlyAfterRecentMatch ==
    /\ ~isAlarmActive
    /\ [][
          /\ isAlarmActive'
                => \E i \in 1..Len(recorded') :
                      /\ recorded'[i].sms.triggered
                      /\ now' <= recorded'[i].sms.timestamp + AlarmDuration
          /\ (~isAlarmActive /\ isAlarmActive')
                => RecordStep /\ LastRecorded'.sms.triggered
       ]_vars

\* C23: a step of handleTestSms taken with the sender or the message field
\* empty changes neither the feed, the alarm and its countdowns, nor the two
\* fields; the feed changes only in a step that starts with both fields
\* non-empty, and the message then put first carries the two fields.
C23_EmptyFieldRejected ==
    [][
       /\ ((testSender = "" \/ testMessage = "")
             /\ \E audioOk \in BOOLEAN : handleTestSms(audioOk, MaxAudioMsgs))
             => UNCHANGED <<smsMessages, recorded, isAlarmActive, timers,
                            testSender, testMessage>>
       /\ smsMessages' # smsMessages
             => /\ testSender # "" /\ testMessage # ""
                /\ Head(smsMessages').sender = testSender
                /\ Head(smsMessages').message = testMessage
    ]_vars

\* C23 witness: a message was recorded from a filled form while the alarm
\* was Active; the form was cleared, a message has been typed again and the
\* sender field is still empty, so that handleTestSms rejects.
C23_Witness ==
    /\ Len(recorded) = 1
    /\ LastRecorded.sms.sender # "" /\ LastRecorded.sms.message # ""
    /\ smsMessages = <<LastRecorded.sms>>
    /\ isAlarmActive /\ timers # <<>>
    /\ testSender = "" /\ testMessage # ""

=============================================================================
